---- MODULE Spec2Model ----
(***************************************************************************)
(* Model of the profile settings form, src/app/dashboard/profile/page.tsx. *)
(*                                                                         *)
(* The component keeps five pieces of React state (profile, isLoading,     *)
(* isSaving, error, successMessage), loads the profile once on mount       *)
(* (fetchProfile) and saves it on submit (updateProfile).  JavaScript runs *)
(* a handler to its next await without interruption, so every action below *)
(* is one such run: the code from the event (or from the answer of the     *)
(* awaited request) up to the next await or the end of the function, its   *)
(* catch and finally blocks included.                                      *)
(***************************************************************************)
EXTENDS Integers, Sequences, FiniteSets, TLC

(* ----------------------------- bounds --------------------------------- *)

\* longest username a user types
MaxLen == 3

\* longest text a user types into a field other than username
MaxOtherLen == 0

\* most upsert requests awaiting their answer at one time
MaxInFlight == 2

(* ----------------------------- values --------------------------------- *)

\* JavaScript null, for the string-valued state (error, successMessage, user)
NULL == "<null>"

Chars == {"a"}

Users == {"u1", "u2"}

Fields == {"full_name", "username", "website", "bio"}

\* the strings of length 0..n
TextUpTo(n) == UNION {[1..k -> Chars] : k \in 0..n}

\* what a user types into the input of a field (e.target.value)
Text(f) == IF f = "username" THEN TextUpTo(MaxLen) ELSE TextUpTo(MaxOtherLen)

\* an optional text property of a Profile: absent (undefined) or a string
Undefined == [defined |-> FALSE, text |-> <<>>]

Some(t) == [defined |-> TRUE, text |-> t]

\* JavaScript truthiness of an optional string: undefined and "" are falsy
Truthy(v) == v.defined /\ Len(v.text) > 0

\* useState<Profile | null>(null)
NullProfile == [null |-> TRUE]

\* interface Profile
NewProfile(uid, fn, un, ws, b) ==
    [id |-> uid, full_name |-> fn, username |-> un, website |-> ws, bio |-> b]

\* the { error } of a PostgREST answer when there is none
NoError == [null |-> TRUE]

\* the error values the backend client hands back: a code, a message that
\* may be missing, and whether the value is an instance of Error or a plain
\* object parsed from the response body
BackendErrors ==
    {[isError |-> i, code |-> c, message |-> m] :
        i \in BOOLEAN, c \in {"23505", "42501"}, m \in {"permission denied", NULL}}
    \ {[isError |-> TRUE, code |-> c, message |-> NULL] : c \in {"23505", "42501"}}

\* what .single() answers when the query does not match exactly one row
NoRowsError ==
    [isError |-> FALSE, code |-> "PGRST116",
     message |-> "JSON object requested, multiple (or no) rows returned"]

\* the rows the profiles table may hold when the page is mounted: one with a
\* username and one without
InitialRows ==
    {NewProfile("u1", Undefined, Some(<<"a", "a", "a">>), Some(<<"a">>), Undefined),
     NewProfile("u2", Some(<<"a">>), Undefined, Undefined, Undefined)}

(* ------------------------------ state --------------------------------- *)

VARIABLES
    profile,         \* useState<Profile | null>
    isLoading,       \* useState(true)
    isSaving,        \* useState(false)
    error,           \* useState<string | null>
    successMessage,  \* useState<string | null>
    route,           \* where the router has been told to go
    storage,         \* the rows of the profiles table
    user,            \* the user of fetchProfile, once getUser has answered
    loadPc,          \* where fetchProfile stands
    pending,         \* the upsert requests awaiting their answer, oldest first,
                     \* each by the key and the username of its record
    lastEvent        \* what the last handler did

vars == <<profile, isLoading, isSaving, error, successMessage, route, storage,
          user, loadPc, pending, lastEvent>>

Event(op, via, outcome, subject, err, refreshed) ==
    [op |-> op, via |-> via, outcome |-> outcome, subject |-> subject,
     err |-> err, refreshed |-> refreshed]

Init ==
    /\ profile = NullProfile
    /\ isLoading = TRUE
    /\ isSaving = FALSE
    /\ error = NULL
    /\ successMessage = NULL
    /\ route = "/dashboard/profile"
    /\ storage \in {s \in SUBSET InitialRows :
                      \A r1, r2 \in s : r1.id = r2.id => r1 = r2}
    /\ user = NULL
    /\ loadPc = "mounted"
    /\ pending = <<>>
    /\ lastEvent = Event("none", "none", "none", NullProfile, NoError, FALSE)

(* ------------------------------- load --------------------------------- *)

\* the select without its .eq('id', user.id) filter
SelectRows_NoFilter(rows, uid) == rows

\* .from('profiles').select('*').eq('id', user.id)
SelectRows(rows, uid) == {r \in rows : r.id = uid}

\* .single(): the one matching row, or an error when there is not exactly one
single(rows) ==
    IF Cardinality(rows) = 1
    THEN [data |-> CHOOSE r \in rows : TRUE, error |-> NoError]
    ELSE [data |-> NullProfile, error |-> NoRowsError]

\* data || { id: user.id }
SeedProfile(data, uid) ==
    IF data # NullProfile
    THEN data
    ELSE NewProfile(uid, Undefined, Undefined, Undefined, Undefined)

\* fetchProfile with the redirect's return leaving before the cleanup
FinishLoad_ReturnSkipsCleanup(p, e, r, pc) ==
    /\ profile' = p
    /\ error' = e
    /\ route' = r
    /\ loadPc' = pc
    /\ isLoading' = (pc = "redirected")

\* the end of fetchProfile: the state it leaves and the finally block
FinishLoad(p, e, r, pc) ==
    /\ profile' = p
    /\ error' = e
    /\ route' = r
    /\ loadPc' = pc
    /\ isLoading' = FALSE

\* useEffect(() => { fetchProfile() }): the effect of the first render calls
\* fetchProfile, which runs up to await supabase.auth.getUser()
useEffect ==
    /\ loadPc = "mounted"
    /\ loadPc' = "getUser"
    /\ lastEvent' = Event("load", "effect", "getUser", NullProfile, NoError, FALSE)
    /\ UNCHANGED <<profile, isLoading, isSaving, error, successMessage, route,
                   storage, user, pending>>

\* getUser answers: no user (redirect and return), a user (run up to the
\* await of the select), or a rejection (catch)
GetUserReturns ==
    /\ loadPc = "getUser"
    /\ \/ /\ user' = NULL
          /\ FinishLoad(profile, error, "/auth", "redirected")
          /\ lastEvent' = Event("load", "getUser", "redirected", NullProfile, NoError, FALSE)
       \/ /\ \E u \in Users : user' = u
          /\ loadPc' = "select"
          /\ lastEvent' = Event("load", "getUser", "select", NullProfile, NoError, FALSE)
          /\ UNCHANGED <<profile, isLoading, error, route>>
       \/ /\ user' = NULL
          /\ FinishLoad(profile, "Failed to load profile", route, "failed")
          /\ lastEvent' = Event("load", "getUser", "failed", NullProfile, NoError, FALSE)
    /\ UNCHANGED <<isSaving, successMessage, storage, pending>>

\* the answers the select can get: that of .single() over the stored rows,
\* or an error of the backend or the network
SelectAnswers ==
    {single(SelectRows(storage, user))}
    \cup {[data |-> NullProfile, error |-> e] : e \in BackendErrors}

\* the select answers: throw on an error, else setProfile
SelectReturns ==
    /\ loadPc = "select"
    /\ \E resp \in SelectAnswers :
         IF resp.error # NoError
         THEN /\ FinishLoad(profile, "Failed to load profile", route, "failed")
              /\ lastEvent' = Event("load", "select", "failed", NullProfile, resp.error, FALSE)
         ELSE /\ FinishLoad(SeedProfile(resp.data, user), error, route, "loaded")
              /\ lastEvent' = Event("load", "select", "loaded", resp.data, NoError, FALSE)
    /\ UNCHANGED <<isSaving, successMessage, storage, user, pending>>

(* ------------------------------- form --------------------------------- *)

\* if (isLoading) return <Loading/>: the form exists once loading is over
FormRendered == ~isLoading

\* an onChange that spreads the profile and forgets the edited field
onChangeResult_Forgets(p, f, v) ==
    IF p # NullProfile THEN p ELSE NullProfile

\* setProfile(profile ? { ...profile, [field]: e.target.value } : null)
onChangeResult(p, f, v) ==
    IF p # NullProfile THEN [p EXCEPT ![f] = Some(v)] ELSE NullProfile

\* onChange of one of the four inputs
onChange ==
    /\ FormRendered
    /\ \E f \in Fields : \E v \in Text(f) :
         /\ profile' = onChangeResult(profile, f, v)
         /\ lastEvent' = Event("edit", "input", "edited", NullProfile, NoError, FALSE)
    /\ UNCHANGED <<isLoading, isSaving, error, successMessage, route, storage,
                   user, loadPc, pending>>

(* ------------------------------- save --------------------------------- *)

\* <button type="submit" disabled={isSaving}>
SubmitDisabled == isSaving

\* profile?.id is truthy
HasId(p) == p # NullProfile /\ p.id # ""

\* the length of the username, 0 when there is none
UsernameLength(p) == IF p.username.defined THEN Len(p.username.text) ELSE 0

\* the validation without its test that a username is present
ValidationFails_NoPresenceTest(p) == UsernameLength(p) < 3

\* profile.username && profile.username.length < 3
ValidationFails(p) == Truthy(p.username) /\ Len(p.username.text) < 3

\* the record handed to upsert (updated_at, the time of the call, left out)
UpsertPayload(p) ==
    NewProfile(p.id, p.full_name, p.username, p.website, p.bio)

\* an upsert request as the backend tells requests apart: the primary key
\* and the column with the uniqueness constraint
Request(payload) == [id |-> payload.id, username |-> payload.username]

\* what the catch block passes to setError for the error of an upsert
SaveErrorMessage(e) ==
    IF e.code = "23505"
    THEN "Username is already taken"
    ELSE IF e.isError THEN e.message ELSE "Failed to update profile"

\* the submit event of the form.  The button raises it only while enabled;
\* form.requestSubmit() raises it whatever the button's state.  The handler
\* runs up to the await of the upsert, or to its end when it returns or
\* throws before.
updateProfile ==
    /\ FormRendered
    /\ \E via \in {"button", "requestSubmit"} :
         /\ via = "button" => ~SubmitDisabled
         /\ IF ~HasId(profile)
            THEN /\ lastEvent' = Event("submit", via, "noop", profile, NoError, FALSE)
                 /\ UNCHANGED <<isSaving, error, successMessage, pending>>
            ELSE IF ValidationFails(profile)
            THEN /\ isSaving' = FALSE
                 /\ error' = "Username must be at least 3 characters long"
                 /\ successMessage' = NULL
                 /\ lastEvent' = Event("submit", via, "rejected", profile, NoError, FALSE)
                 /\ UNCHANGED pending
            ELSE /\ Len(pending) < MaxInFlight
                 /\ isSaving' = TRUE
                 /\ error' = NULL
                 /\ successMessage' = NULL
                 /\ pending' = Append(pending, Request(UpsertPayload(profile)))
                 /\ lastEvent' = Event("submit", via, "issued", profile, NoError, FALSE)
    /\ UNCHANGED <<profile, isLoading, route, storage, user, loadPc>>

Remove(s, i) == SubSeq(s, 1, i - 1) \o SubSeq(s, i + 1, Len(s))

\* the end of updateProfile after an answer without error
FinishSaveOk ==
    /\ successMessage' = "Profile updated successfully"
    /\ isSaving' = FALSE
    /\ UNCHANGED error

\* the end of updateProfile after an answer with an error
FinishSaveError(e) ==
    /\ error' = SaveErrorMessage(e)
    /\ isSaving' = FALSE
    /\ UNCHANGED successMessage

\* an upsert is answered, in any order: the rest of updateProfile runs
UpsertReturns ==
    /\ pending # <<>>
    /\ \E i \in 1..Len(pending) :
         /\ pending' = Remove(pending, i)
         /\ \/ /\ FinishSaveOk
               /\ lastEvent' = Event("response", "upsert", "success", NullProfile, NoError, TRUE)
            \/ \E e \in BackendErrors :
                 /\ FinishSaveError(e)
                 /\ lastEvent' = Event("response", "upsert",
                                       IF e.code = "23505" THEN "conflict" ELSE "generic",
                                       NullProfile, e, FALSE)
    /\ UNCHANGED <<profile, isLoading, route, storage, user, loadPc>>

Next ==
    \/ useEffect
    \/ GetUserReturns
    \/ SelectReturns
    \/ onChange
    \/ updateProfile
    \/ UpsertReturns

Spec == Init /\ [][Next]_vars

TypeOK ==
    /\ isLoading \in BOOLEAN
    /\ isSaving \in BOOLEAN
    /\ error \in {NULL, "Failed to load profile", "Failed to update profile",
                  "Username must be at least 3 characters long",
                  "Username is already taken", "permission denied"}
    /\ successMessage \in {NULL, "Profile updated successfully"}
    /\ route \in {"/dashboard/profile", "/auth"}
    /\ user \in Users \cup {NULL}
    /\ Len(pending) <= MaxInFlight

(* ------------------------------ claims -------------------------------- *)

SaveFailures == {"rejected", "conflict", "generic"}

\* the form takes edits and a submit can send an upsert
Retryable ==
    /\ FormRendered
    /\ ~SubmitDisabled
    /\ \A f \in Fields : \A v \in Text(f) :
         LET p == onChangeResult(profile, f, v)
         IN  p # NullProfile /\ p[f] = Some(v)
    /\ \E v \in Text("username") :
         LET p == onChangeResult(profile, "username", v)
         IN  HasId(p) /\ ~ValidationFails(p)

\* C1 as stated: a submit of a loaded profile whose username has length 0, 1
\* or 2 is rejected with the validation message and sends no upsert; with
\* length 3 or more it sends one.
C1_AsStated ==
    (lastEvent.op = "submit" /\ HasId(lastEvent.subject)) =>
        IF UsernameLength(lastEvent.subject) < 3
        THEN /\ lastEvent.outcome = "rejected"
             /\ error = "Username must be at least 3 characters long"
        ELSE lastEvent.outcome = "issued"

\* C1 amended: a submit of a loaded profile whose username has length 1 or 2
\* is rejected with the validation message, with no success message, the
\* saving flag down and no upsert sent; with a username that is absent, empty
\* or of length 3 or more it sends an upsert.
C1_ShortUsernameRejected ==
    (lastEvent.op = "submit" /\ HasId(lastEvent.subject)) =>
        IF UsernameLength(lastEvent.subject) \in {1, 2}
        THEN /\ lastEvent.outcome = "rejected"
             /\ error = "Username must be at least 3 characters long"
             /\ successMessage = NULL
             /\ ~isSaving
        ELSE /\ lastEvent.outcome = "issued"
             /\ pending # <<>>
             /\ pending[Len(pending)].id = lastEvent.subject.id
             /\ pending[Len(pending)].username = lastEvent.subject.username

C1_Witness ==
    /\ lastEvent.op = "submit"
    /\ HasId(lastEvent.subject)
    /\ UsernameLength(lastEvent.subject) = 2
    /\ lastEvent.outcome = "rejected"

\* C2: when the session has a user and the table holds no row for that user,
\* the load that the table answers ends with the profile { id: user.id } and
\* no error message.
C2_NoRowSeedsProfile ==
    (/\ lastEvent.op = "load"
     /\ lastEvent.via = "select"
     /\ lastEvent.err \notin BackendErrors
     /\ SelectRows(storage, user) = {}) =>
        /\ profile = NewProfile(user, Undefined, Undefined, Undefined, Undefined)
        /\ error = NULL

\* C3: when an upsert is answered with code 23505, the save ends with the
\* error message 'Username is already taken', no success message and no
\* refresh.
C3_ConflictMessage ==
    (lastEvent.op = "response" /\ lastEvent.outcome = "conflict") =>
        /\ error = "Username is already taken"
        /\ successMessage = NULL
        /\ ~lastEvent.refreshed

\* C4: when an upsert is answered without error, the save ends with the
\* success message set, the error message null and one refresh; a save that
\* did not succeed asks for no refresh.
C4_SuccessOutcome ==
    /\ (lastEvent.op = "response" /\ lastEvent.outcome = "success") =>
          /\ successMessage = "Profile updated successfully"
          /\ error = NULL
          /\ lastEvent.refreshed
    /\ lastEvent.refreshed =>
          (lastEvent.op = "response" /\ lastEvent.outcome = "success")

\* C5: when an upsert is answered with an error whose code is not 23505, the
\* error message is the message of that error when it has one, and
\* 'Failed to update profile' only when it has none.
C5_BackendMessageSurfaced ==
    (lastEvent.op = "response" /\ lastEvent.outcome = "generic") =>
        error = IF lastEvent.err.message # NULL
                THEN lastEvent.err.message
                ELSE "Failed to update profile"

\* C6 as stated: after every failure (load, validation, conflict, other save
\* error) the form takes edits and a submit can send an upsert.
C6_AsStated ==
    (lastEvent.outcome \in SaveFailures \/ loadPc = "failed") => Retryable

\* C6 amended: after a validation failure, a conflict or another save error
\* the form takes edits and a submit can send an upsert; after a load failure
\* the form is shown with the load error, the profile is null, every edit
\* leaves it null and a submit sends nothing.
C6_RetryableAfterSaveFailure ==
    /\ lastEvent.outcome \in SaveFailures => Retryable
    /\ loadPc = "failed" =>
          /\ FormRendered
          /\ profile = NullProfile
          /\ \A f \in Fields : \A v \in Text(f) :
                onChangeResult(profile, f, v) = NullProfile
          /\ ~HasId(profile)
          /\ pending = <<>>
          /\ lastEvent.op = "submit" => lastEvent.outcome = "noop"

C6_Witness ==
    /\ lastEvent.op = "response"
    /\ lastEvent.outcome = "generic"
    /\ profile.username = Some(<<"a", "a", "a">>)
    /\ profile.website = Some(<<>>)
    /\ Retryable

\* C7: at most one upsert is in flight at any time, and the saving flag is up
\* (the button disabled) whenever one is.
C7_SubmitsSerialized ==
    /\ Len(pending) <= 1
    /\ pending # <<>> => SubmitDisabled

\* C8: the profile is null or has the id of the session's user, no edit
\* changes that id, and every upsert sent carries it.
C8_IdFromSession ==
    /\ profile # NullProfile =>
          /\ user # NULL
          /\ profile.id = user
          /\ \A f \in Fields : \A v \in Text(f) :
                onChangeResult(profile, f, v).id = user
    /\ \A i \in 1..Len(pending) : user # NULL /\ pending[i].id = user
    /\ lastEvent.outcome = "issued" => UpsertPayload(lastEvent.subject).id = user

C8_Witness ==
    /\ lastEvent.op = "edit"
    /\ pending # <<>>
    /\ profile # NullProfile
    /\ profile.id = user

\* C9: isLoading is true until the load ends and false once it has ended,
\* whether by redirect, failure or success; the redirect goes to /auth with
\* no error message and without a select having been sent; isLoading, once
\* false, stays false.
C9_LoadingCleared ==
    /\ [](/\ loadPc \in {"mounted", "getUser", "select"} => isLoading
          /\ loadPc \in {"redirected", "failed", "loaded"} => ~isLoading
          /\ loadPc = "redirected" =>
                route = "/auth" /\ error = NULL /\ user = NULL)
    /\ [][/\ ~isLoading => ~isLoading'
          /\ loadPc' = "redirected" => loadPc \in {"getUser", "redirected"}
          /\ loadPc' = "select" => user' # NULL]_vars

C9_Witness ==
    /\ loadPc = "redirected"
    /\ lastEvent.op = "submit"
    /\ ~isLoading

\* C10: the error message and the success message are never both set.
C10_MessagesExclusive ==
    ~(error # NULL /\ successMessage # NULL)

====
